---------------------------- MODULE Spec2Model ----------------------------
(***************************************************************************)
(* A state-machine model of the multi-device serial controller of          *)
(* schoolGamesPlatform.  The repository holds three snapshots of the       *)
(* controller; the model carries all three and picks one per behaviour:    *)
(*                                                                         *)
(*   variant = "four"    src/microbit-controller.js (FourMicrobitController)*)
(*   variant = "bike"    src/unnamed/part_004 (the same, plus the HW-484   *)
(*                       hall sensor on a bike)                            *)
(*   variant = "arcade"  src/unnamed/part_005 (MicrobitArcadeController)   *)
(*                                                                         *)
(* A serial line is a sequence of tokens in which the separators "_", ":"  *)
(* and " " are tokens of their own, so that split, includes, startsWith    *)
(* and parseInt are computed the way the JavaScript computes them.         *)
(* Wall-clock values (lastActivity, lastUpdateTime, the delay lengths) are *)
(* not modelled: a timer or a delay may end at any later step.             *)
(***************************************************************************)
EXTENDS Integers, Sequences, FiniteSets, TLC

\* ------------------------------------------------------------- bounds
\* Serial ports the scan finds (port paths 1..NumPorts).
NumPorts == 2
\* Devices announce and use the button numbers 1..MaxRole.
MaxRole == 2
\* Rounds / times a pattern is started with.
MaxRounds == 1
\* The counts and rates a cadence sample carries: 0..MaxCount.
MaxCount == 2
\* The pattern lengths simonSaysPattern is called with: 0..MaxPattern.
MaxPattern == 2

\* ------------------------------------------------- program constants
\* this.buttonStates / this.ledStates hold four entries.
NumButtons == 4
\* The port path simulateBikeData hands on: 'simulated', no port of the scan.
simulated == NumPorts + 1
\* What parseInt returns for text that does not start with a number.
NaN == -99

Ports == 1..NumPorts
\* Map.get of a missing key, and this.bikePort = null.
NoPort == 0
Buttons == 1..NumButtons
Variants == {"four", "bike", "arcade"}

\* ------------------------------------------------------------ JavaScript
isNaN(x) == x = NaN
\* a >= b, a <= b, a < b, a > b: false as soon as one side is NaN.
JsGe(a, b) == a # NaN /\ b # NaN /\ a >= b
JsLe(a, b) == a # NaN /\ b # NaN /\ a <= b
JsLt(a, b) == a # NaN /\ b # NaN /\ a < b
JsGt(a, b) == a # NaN /\ b # NaN /\ a > b
\* a - 1
JsDec(a) == IF a = NaN THEN NaN ELSE a - 1

\* The numeric tokens of the modelled lines and their values.
NumberTokens ==
    ("0" :> 0) @@ ("1" :> 1) @@ ("2" :> 2) @@ ("3" :> 3) @@ ("4" :> 4) @@
    ("5" :> 5) @@ ("-1" :> -1)
\* The token a device prints for a number.
TokenOf(n) == CHOOSE t \in DOMAIN NumberTokens : NumberTokens[t] = n

\* message.split(sep): the parts between the separators.
RECURSIVE split(_, _)
split(message, sep) ==
    IF \A i \in 1..Len(message) : message[i] # sep
    THEN <<message>>
    ELSE LET k == CHOOSE i \in 1..Len(message) :
                     message[i] = sep /\ \A j \in 1..(i - 1) : message[j] # sep
         IN  <<SubSeq(message, 1, k - 1)>>
                 \o split(SubSeq(message, k + 1, Len(message)), sep)

\* parts[i] of a JavaScript array (0-based); <<"undefined">> past its end.
At(parts, i) == IF i + 1 <= Len(parts) THEN parts[i + 1] ELSE <<"undefined">>

\* parseInt(text): the leading number of the text, or NaN.
parseInt(text) ==
    IF Len(text) >= 1 /\ text[1] \in DOMAIN NumberTokens
    THEN NumberTokens[text[1]]
    ELSE NaN

\* message.includes(sub)
includes(message, sub) ==
    \E i \in 1..(Len(message) - Len(sub) + 1) :
        SubSeq(message, i, i + Len(sub) - 1) = sub

\* message.startsWith(sub)
startsWith(message, sub) ==
    Len(message) >= Len(sub) /\ SubSeq(message, 1, Len(sub)) = sub

\* A JavaScript Map in insertion order: a sequence of <<key, value>> pairs.
MapHas(m, k) == \E i \in 1..Len(m) : m[i][1] = k
MapGet(m, k) ==
    IF MapHas(m, k)
    THEN m[CHOOSE i \in 1..Len(m) : m[i][1] = k][2]
    ELSE NoPort
MapSet(m, k, v) ==
    IF MapHas(m, k)
    THEN [i \in 1..Len(m) |-> IF m[i][1] = k THEN <<k, v>> ELSE m[i]]
    ELSE Append(m, <<k, v>>)
MapDelete(m, k) == SelectSeq(m, LAMBDA e : e[1] # k)
MapKeys(m) == {m[i][1] : i \in 1..Len(m)}

\* array[i] = v on a JavaScript array: an index outside the array adds it.
ArraySet(array, i, v) ==
    [j \in (DOMAIN array) \cup {i} |-> IF j = i THEN v ELSE array[j]]
\* !array[i]: a missing entry is undefined, and !undefined is true.
ArrayNot(array, i) == IF i \in DOMAIN array THEN ~array[i] ELSE TRUE

\* ------------------------------------------------------------ the lines
buttonColors == <<"GREEN", "WHITE", "RED", "GREEN">>
buttonPositions == <<"LEFT", "MIDDLE-LEFT", "MIDDLE-RIGHT", "RIGHT">>

ColorOf(t) ==
    IF parseInt(<<t>>) \in Buttons THEN buttonColors[parseInt(<<t>>)] ELSE "GREEN"

ReadyLine(t) == <<"BUTTON", "_", t, "_", ColorOf(t), "_", "READY">>
PressedLine(t) == <<"BUTTON", "_", t, "_", "PRESSED">>
ReleasedLine(t) == <<"BUTTON", "_", t, "_", "RELEASED">>
LedLine(t, w) == <<"LED", "_", t, "_", w, "_", "CONFIRMED">>
PongLine(t) == <<"PONG", "_", t>>
BikeRevLine(c, r, ts) == <<"BIKE", "_", "REV", ":", c, ":", r, ":", ts>>
BikeReadyLine == <<"BIKE", " ", "SENSOR", " ", "READY">>

\* ------------------------------------------------------------- the state
VARIABLES
    variant,          \* which snapshot of the controller runs
    device,           \* what is plugged into each port: the number its
                      \* firmware announces, or "bike" for the hall sensor
    portState,        \* the operating system's side of each port
    connections,      \* this.connections: the ports with an entry
    deviceType,       \* connection.deviceType (bike variant)
    buttonMappings,   \* this.buttonMappings: port -> button (0: no entry)
    portToButton,     \* this.portToButton: button -> port (NoPort: no entry)
    microbitMapping,  \* this.microbitMapping (arcade variant), in insertion order
    bikePort,         \* this.bikePort
    bikeData,         \* this.bikeData
    buttonStates,     \* this.buttonStates, indexed 0..3
    ledStates,        \* this.ledStates, indexed 0..3
    timers,           \* the pending setTimeout callbacks
    pat,              \* the running LED pattern (an async function)
    written,          \* what the last step wrote to the ports
    call,             \* what the last step ran: a handler or a call of the
                      \* game layer, with its arguments
    led,              \* the setLED calls the last step made, and their results
    ret,              \* what the last call returned (<<>>: nothing was called)
    emitted,          \* the events the last step emitted
    wire              \* history: per port, whose commands it has been getting
                      \* since the running pattern first wrote to it

vars == <<variant, device, portState, connections, deviceType, buttonMappings,
          portToButton, microbitMapping, bikePort, bikeData, buttonStates,
          ledStates, timers, pat, written, call, led, ret, emitted, wire>>

Event(type, port, button, state) ==
    [type |-> type, port |-> port, button |-> button, state |-> state,
     color |-> "none", position |-> "none", revolutions |-> 0, rpm |-> 0]
BikeEvent(type, port, revolutions, rpm) ==
    [type |-> type, port |-> port, button |-> 0, state |-> "none",
     color |-> "none", position |-> "none",
     revolutions |-> revolutions, rpm |-> rpm]
\* The payload of button-press and button-release.
ButtonEvent(type, button, color, position, state) ==
    [type |-> type, port |-> NoPort, button |-> button, state |-> state,
     color |-> color, position |-> position, revolutions |-> 0, rpm |-> 0]

\* The pending setTimeout callbacks, by what they will do.  A port is opened
\* once, so it has one IDENTIFY timer; a button may be registered again while
\* its flash timers are pending, and the pending copies of one flash timer
\* are kept as one that may fire again.
NoTimers == [identify |-> {}, flashOn |-> {}, flashOff |-> {}]

Idle == [name |-> "idle", pc |-> "done", i |-> 0, round |-> 0, rounds |-> 0,
         button |-> 0, order |-> <<>>]

\* The state the constructor leaves: no port has been opened yet.
InitController ==
    /\ variant \in Variants
    /\ portState = [p \in Ports |-> "unopened"]
    /\ connections = {}
    /\ deviceType = [p \in Ports |-> "unknown"]
    /\ buttonMappings = [p \in Ports |-> 0]
    /\ portToButton = [n \in Buttons |-> NoPort]
    /\ microbitMapping = <<>>
    /\ bikePort = NoPort
    /\ bikeData = [revolutions |-> 0, rpm |-> 0, isActive |-> FALSE]
    /\ buttonStates = [i \in 0..(NumButtons - 1) |-> FALSE]
    /\ ledStates = [i \in 0..(NumButtons - 1) |-> FALSE]
    /\ timers = NoTimers
    /\ pat = Idle
    /\ written = <<>>
    /\ call = <<>>
    /\ led = <<>>
    /\ ret = <<>>
    /\ emitted = <<>>

\* A device keeps the number it was flashed with; two devices may have been
\* flashed with the same number.
Devices == {TokenOf(n) : n \in 1..MaxRole} \cup {"bike"}

\* The bike sensor first, then the buttons by number.
DeviceRank(d) == IF d = "bike" THEN 0 ELSE NumberTokens[d]

\* Nothing in the controller depends on which port is which, so the devices
\* are taken in one order along the ports.
Init ==
    /\ InitController
    /\ device \in [Ports -> Devices]
    /\ \A p, q \in Ports : p < q => DeviceRank(device[p]) <= DeviceRank(device[q])
    /\ wire = [p \in Ports |-> "none"]


\* ------------------------------------------------- handlers as functions
\* A handler is a function from the controller's fields to the controller's
\* fields; Cur is the current state, and Begin(who) is the state a handler
\* starts from: nothing written, returned or emitted yet.
Cur ==
    [connections |-> connections, deviceType |-> deviceType,
     buttonMappings |-> buttonMappings, portToButton |-> portToButton,
     microbitMapping |-> microbitMapping, bikePort |-> bikePort,
     bikeData |-> bikeData, buttonStates |-> buttonStates,
     ledStates |-> ledStates, timers |-> timers,
     written |-> written, call |-> call, led |-> led, ret |-> ret,
     emitted |-> emitted,
     caller |-> "none"]

Begin(who) ==
    [Cur EXCEPT !.written = <<>>, !.call = <<>>, !.led = <<>>, !.ret = <<>>,
                !.emitted = <<>>, !.caller = who]

\* The state a handler or a call starts from, its arguments noted.
Called(who, args) == [Begin(who) EXCEPT !.call = <<who>> \o args]

\* The state a pattern resumes from when its delay is over.
Resumed(who) == [Begin(who) EXCEPT !.call = <<"resume", who>>]

\* The caller a step's commands come from.
Caller(c) == IF c[1] = "resume" THEN c[2] ELSE c[1]

\* The controller's fields become those of s.
Becomes(s) ==
    /\ call' = s.call
    /\ written' = s.written
    /\ led' = s.led
    /\ ret' = s.ret
    /\ emitted' = s.emitted
    /\ connections' = s.connections
    /\ deviceType' = s.deviceType
    /\ buttonMappings' = s.buttonMappings
    /\ portToButton' = s.portToButton
    /\ microbitMapping' = s.microbitMapping
    /\ bikePort' = s.bikePort
    /\ bikeData' = s.bikeData
    /\ buttonStates' = s.buttonStates
    /\ ledStates' = s.ledStates
    /\ timers' = s.timers

emit(s, event) == [s EXCEPT !.emitted = Append(@, event)]

\* sendCommand writing to a port whose connection is gone.
sendCommandUnchecked(s, portPath, command) ==
    [s EXCEPT !.written = Append(@, [port |-> portPath, cmd |-> command,
                                     by |-> s.caller]),
              !.ret = <<TRUE>>]

\* sendCommand(portPath, command): port.write is taken not to throw.
sendCommand(s, portPath, command) ==
    IF portPath \notin s.connections
    THEN [s EXCEPT !.ret = <<FALSE>>]
    ELSE [s EXCEPT !.written = Append(@, [port |-> portPath, cmd |-> command,
                                          by |-> s.caller]),
                   !.ret = <<TRUE>>]

\* setLED of the four and bike variants.
setLED(s, buttonNumber, state) ==
    LET portPath == IF buttonNumber \in Buttons
                    THEN s.portToButton[buttonNumber]
                    ELSE NoPort
    IN  IF portPath = NoPort
        THEN [s EXCEPT !.ret = <<FALSE>>]
        ELSE sendCommand(s, portPath, IF state THEN "LED_ON" ELSE "LED_OFF")

\* setLED of the arcade variant.
setLEDArcade(s, buttonNumber, state) ==
    LET portPath == MapGet(s.microbitMapping, buttonNumber)
    IN  IF portPath = NoPort
        THEN [s EXCEPT !.ret = <<FALSE>>]
        ELSE IF portPath \notin s.connections
        THEN [s EXCEPT !.ret = <<FALSE>>]
        ELSE [s EXCEPT !.written = Append(@, [port |-> portPath,
                                    cmd |-> IF state THEN "LED_ON" ELSE "LED_OFF",
                                    by |-> s.caller]),
                       !.ledStates = ArraySet(@, JsDec(buttonNumber), state),
                       !.ret = <<TRUE>>]

\* this.setLED(buttonNumber, state) of the running variant, the call and its
\* result noted in led.  (The sets of one element have each state computed
\* once where calls follow one another.)
SetLed(s, buttonNumber, state) ==
    CHOOSE logged \in
        {[after EXCEPT !.led = Append(@, [button |-> buttonNumber,
                                          state |-> IF state THEN "on" ELSE "off",
                                          result |-> after.ret[1]])] :
            after \in {IF variant = "arcade"
                       THEN setLEDArcade(before, buttonNumber, state)
                       ELSE setLED(before, buttonNumber, state) :
                       before \in {s}}} : TRUE

\* setAllLEDs(state): the four setLED calls are made in one turn; the result
\* is whether every one of them returned true.
setAllLEDs(s, state) ==
    LET s1 == SetLed(s, 1, state)
        s2 == SetLed(s1, 2, state)
        s3 == SetLed(s2, 3, state)
        s4 == SetLed(s3, 4, state)
    IN  [s4 EXCEPT !.ret = <<s1.ret[1] /\ s2.ret[1] /\ s3.ret[1] /\ s4.ret[1]>>]

\* chaseLEDs up to its first delay: LED 1 goes on.
chaseLEDs(s) == SetLed(s, 1, TRUE)

\* chaseLEDs lighting the next LED before it turns the last one off.
chaseLEDsResumedOverlapping(s, p) ==
    IF p.i < NumButtons THEN SetLed(SetLed(s, p.i + 1, TRUE), p.i, FALSE)
    ELSE IF p.round + 1 < p.rounds THEN SetLed(SetLed(s, 1, TRUE), p.i, FALSE)
    ELSE SetLed(s, p.i, FALSE)

\* chaseLEDs from a delay to the next, or to its end: LED i goes off and the
\* next LED, of this round or of the next one, goes on.
chaseLEDsResumed(s, p) ==
    LET s1 == SetLed(s, p.i, FALSE)
    IN  IF p.i < NumButtons THEN SetLed(s1, p.i + 1, TRUE)
        ELSE IF p.round + 1 < p.rounds THEN SetLed(s1, 1, TRUE)
        ELSE s1

\* chaseLEDs waiting for the device of the LED it lit to come back.
chaseLEDsNextWaits(p) ==
    IF (IF variant = "arcade" THEN MapGet(microbitMapping, p.i)
        ELSE portToButton[p.i]) \notin connections
    THEN p
    ELSE IF p.i < NumButtons THEN [p EXCEPT !.i = @ + 1]
    ELSE IF p.round + 1 < p.rounds THEN [p EXCEPT !.i = 1, !.round = @ + 1]
    ELSE Idle

\* Where chaseLEDs waits after that; Idle when it has returned.
chaseLEDsNext(p) ==
    IF p.i < NumButtons THEN [p EXCEPT !.i = @ + 1]
    ELSE IF p.round + 1 < p.rounds THEN [p EXCEPT !.i = 1, !.round = @ + 1]
    ELSE Idle

\* flashLED from a delay to the next, or to its end.
flashLEDResumed(s, p) ==
    IF p.pc = "lit" THEN SetLed(s, p.button, FALSE) ELSE SetLed(s, p.button, TRUE)

\* flashAllLEDs from a delay to the next, or to its end.
flashAllLEDsResumed(s, p) ==
    IF p.pc = "lit" THEN setAllLEDs(s, FALSE) ELSE setAllLEDs(s, TRUE)

\* Where flashLED and flashAllLEDs wait after that: pass i of p.rounds is lit,
\* then dark unless it is the last.
flashNext(p) ==
    IF p.pc = "lit"
    THEN IF p.i < p.rounds - 1 THEN [p EXCEPT !.pc = "dark"] ELSE Idle
    ELSE [p EXCEPT !.pc = "lit", !.i = @ + 1]

\* The Fisher-Yates loop of generateRandomOrder from index i down to 1 (the
\* indices of the code, from 0); js[i] is what
\* Math.floor(Math.random() * (i + 1)) gives at index i.
RECURSIVE shuffle(_, _, _)
shuffle(leds, i, js) ==
    IF i > 0
    THEN shuffle([leds EXCEPT ![i + 1] = leds[js[i] + 1],
                              ![js[i] + 1] = leds[i + 1]],
                 i - 1, js)
    ELSE leds

\* generateRandomOrder(count) of the arcade variant, js the random numbers.
generateRandomOrder(count, js) == shuffle([k \in 1..count |-> k], count - 1, js)

\* The random numbers one shuffle may draw.
RandomDraws(count) ==
    {js \in [1..(count - 1) -> 0..(count - 1)] : \A i \in 1..(count - 1) : js[i] <= i}

\* The orders randomLEDSequence may play: a shuffle of 1..count in the arcade
\* variant; count draws of Math.floor(Math.random() * 4) + 1 in the bike
\* variant.
RandomOrders(count) ==
    IF variant = "arcade"
    THEN {generateRandomOrder(count, js) : js \in RandomDraws(count)}
    ELSE [1..count -> Buttons]

\* ledOrder.indexOf(ledNumber), from 0.
indexOf(order, ledNumber) ==
    (CHOOSE k \in 1..Len(order) :
        order[k] = ledNumber /\ \A l \in 1..(k - 1) : order[l] # ledNumber) - 1

\* randomLEDSequence up to its first delay: the first LED of the order goes on.
randomLEDSequence(s, order) == SetLed(s, order[1], TRUE)

\* randomLEDSequence from a delay to the next, or to its end; order is the
\* order of the sequence that starts, if one does.
randomLEDSequenceResumed(s, p, order) ==
    CASE p.pc = "lit" ->
            LET s1 == SetLed(s, p.order[p.i], FALSE)
            IN  IF variant = "arcade"
                   /\ ~(indexOf(p.order, p.order[p.i]) < Len(p.order) - 1)
                   /\ p.i < Len(p.order)
                THEN SetLed(s1, p.order[p.i + 1], TRUE)
                ELSE s1
      [] p.pc = "dark" ->
            IF p.i < Len(p.order) THEN SetLed(s, p.order[p.i + 1], TRUE) ELSE s
      [] p.pc = "pause" -> SetLed(s, order[1], TRUE)

\* Where randomLEDSequence waits after that; Idle when it has returned.
randomLEDSequenceNext(p, order) ==
    CASE p.pc = "lit" ->
            IF variant = "arcade"
            THEN IF indexOf(p.order, p.order[p.i]) < Len(p.order) - 1
                 THEN [p EXCEPT !.pc = "dark"]
                 ELSE IF p.i < Len(p.order) THEN [p EXCEPT !.i = @ + 1]
                 ELSE IF p.round < p.rounds - 1 THEN [p EXCEPT !.pc = "pause"]
                 ELSE Idle
            ELSE [p EXCEPT !.pc = "dark"]
      [] p.pc = "dark" ->
            IF p.i < Len(p.order) THEN [p EXCEPT !.pc = "lit", !.i = @ + 1]
            ELSE IF p.round < p.rounds - 1 THEN [p EXCEPT !.pc = "pause"]
            ELSE Idle
      [] p.pc = "pause" ->
            [p EXCEPT !.pc = "lit", !.i = 1, !.round = @ + 1, !.order = order]

\* The patterns simonSaysPattern(patternLength, ...) may draw: patternLength
\* draws of Math.floor(Math.random() * 4) + 1.
SimonPatterns(patternLength) == [1..patternLength -> Buttons]

\* simonSaysPattern handing back the pattern in reverse.
simonSaysPatternReturnedReversed(s, pattern) ==
    [s EXCEPT !.ret = <<[k \in 1..Len(pattern) |->
                           pattern[Len(pattern) + 1 - k]]>>]

\* return pattern
simonSaysPatternReturned(s, pattern) == [s EXCEPT !.ret = <<pattern>>]

\* simonSaysPattern up to its first delay, or to its end when the pattern is
\* empty.
simonSaysPattern(s, pattern) ==
    IF Len(pattern) = 0
    THEN simonSaysPatternReturned(s, pattern)
    ELSE SetLed(s, pattern[1], TRUE)

\* simonSaysPattern from a delay to the next, or to its end.  The arcade
\* variant pauses between the steps only; the bike variant after every step.
simonSaysPatternResumed(s, p) ==
    CASE p.pc = "lit" ->
            LET s1 == SetLed(s, p.order[p.i], FALSE)
            IN  IF variant = "arcade" /\ ~(p.i - 1 < Len(p.order) - 1)
                THEN simonSaysPatternReturned(s1, p.order)
                ELSE s1
      [] p.pc = "dark" ->
            IF p.i < Len(p.order)
            THEN SetLed(s, p.order[p.i + 1], TRUE)
            ELSE simonSaysPatternReturned(s, p.order)

\* Where simonSaysPattern waits after that; Idle when it has returned.
simonSaysPatternNext(p) ==
    CASE p.pc = "lit" ->
            IF variant = "arcade" /\ ~(p.i - 1 < Len(p.order) - 1)
            THEN Idle
            ELSE [p EXCEPT !.pc = "dark"]
      [] p.pc = "dark" ->
            IF p.i < Len(p.order) THEN [p EXCEPT !.pc = "lit", !.i = @ + 1]
            ELSE Idle

\* The orders a wave of randomCascade may take: generateRandomOrder(4) in the
\* arcade variant; the direction drawn, 1..4 or 4..1, in the bike variant.
CascadeOrders ==
    IF variant = "arcade"
    THEN {generateRandomOrder(NumButtons, js) : js \in RandomDraws(NumButtons)}
    ELSE {<<1, 2, 3, 4>>, <<4, 3, 2, 1>>}

\* randomCascade up to its first delay: the first LED of the wave goes on;
\* with no wave to play it returns at once.
randomCascade(s, waves, order) ==
    IF 0 < waves THEN SetLed(s, order[1], TRUE) ELSE s

\* randomCascade from a delay to the next, or to its end; order is the order
\* of the wave that starts, if one does.  The arcade variant lights the four,
\* holds, and turns them off from the last lit; the bike variant turns each
\* LED off when its delay is over and lights the next.
randomCascadeResumed(s, p, order) ==
    IF variant = "arcade"
    THEN CASE p.pc = "on" ->
                 IF p.i < Len(p.order) THEN SetLed(s, p.order[p.i + 1], TRUE)
                 ELSE s
           [] p.pc = "hold" -> SetLed(s, p.order[Len(p.order)], FALSE)
           [] p.pc = "off" ->
                 IF 1 < p.i THEN SetLed(s, p.order[p.i - 1], FALSE) ELSE s
           [] p.pc = "pause" -> SetLed(s, order[1], TRUE)
    ELSE LET s1 == SetLed(s, p.order[p.i], FALSE)
         IN  IF p.i < Len(p.order) THEN SetLed(s1, p.order[p.i + 1], TRUE)
             ELSE IF p.round + 1 < p.rounds THEN SetLed(s1, order[1], TRUE)
             ELSE s1

\* Where randomCascade waits after that; Idle when it has returned.
randomCascadeNext(p, order) ==
    IF variant = "arcade"
    THEN CASE p.pc = "on" ->
                 IF p.i < Len(p.order) THEN [p EXCEPT !.i = @ + 1]
                 ELSE [p EXCEPT !.pc = "hold"]
           [] p.pc = "hold" -> [p EXCEPT !.pc = "off"]
           [] p.pc = "off" ->
                 IF 1 < p.i THEN [p EXCEPT !.i = @ - 1]
                 ELSE IF p.round < p.rounds - 1 THEN [p EXCEPT !.pc = "pause"]
                 ELSE Idle
           [] p.pc = "pause" ->
                 [p EXCEPT !.pc = "on", !.i = 1, !.round = @ + 1,
                           !.order = order]
    ELSE IF p.i < Len(p.order) THEN [p EXCEPT !.i = @ + 1]
         ELSE IF p.round + 1 < p.rounds
         THEN [p EXCEPT !.i = 1, !.round = @ + 1, !.order = order]
         ELSE Idle

\* registerButton keeping the role with the port that holds it.
registerButtonFirstWins(s, portPath, buttonNumber) ==
    IF JsGe(buttonNumber, 1) /\ JsLe(buttonNumber, 4)
       /\ s.portToButton[buttonNumber] \in {NoPort, portPath}
    THEN emit([s EXCEPT !.buttonMappings[portPath] = buttonNumber,
                        !.portToButton[buttonNumber] = portPath,
                        !.timers.flashOn = @ \cup {buttonNumber}],
              Event("microbit-ready", portPath, buttonNumber, "none"))
    ELSE s

\* registerButton of the four variant.
registerButton(s, portPath, buttonNumber) ==
    IF JsGe(buttonNumber, 1) /\ JsLe(buttonNumber, 4)
    THEN emit([s EXCEPT !.buttonMappings[portPath] = buttonNumber,
                        !.portToButton[buttonNumber] = portPath,
                        !.timers.flashOn = @ \cup {buttonNumber}],
              Event("microbit-ready", portPath, buttonNumber, "none"))
    ELSE s

\* registerButton of the bike variant.
registerButtonBike(s, portPath, buttonNumber) ==
    IF JsGe(buttonNumber, 1) /\ JsLe(buttonNumber, 4)
    THEN emit([s EXCEPT !.buttonMappings[portPath] = buttonNumber,
                        !.portToButton[buttonNumber] = portPath,
                        !.deviceType[portPath] =
                            IF portPath \in s.connections THEN "button" ELSE @,
                        !.timers.flashOn = @ \cup {buttonNumber}],
              Event("microbit-ready", portPath, buttonNumber, "none"))
    ELSE s

\* registerBikeSensor (bike variant).
registerBikeSensor(s, portPath) ==
    LET s1 == [s EXCEPT !.bikePort = portPath]
    IN  IF portPath \in s.connections
        THEN emit([s1 EXCEPT !.deviceType[portPath] = "bike"],
                  Event("bike-sensor-ready", portPath, 0, "none"))
        ELSE s1

\* processBikeSensorData taking every sample as it comes.
processBikeSensorDataUnvalidated(s, portPath, message) ==
    LET parts == split(message, ":")
        revolutions == parseInt(At(parts, 1))
        rpm == parseInt(At(parts, 2))
    IN  IF Len(parts) >= 4
        THEN emit(emit([s EXCEPT !.bikeData =
                            [revolutions |-> revolutions, rpm |-> rpm,
                             isActive |-> JsGt(rpm, 0)]],
                       BikeEvent("bike-data", portPath, revolutions, rpm)),
                  BikeEvent("microbit-data", NoPort, revolutions, rpm))
        ELSE s

\* processBikeSensorData telling its subscribers of new counts only.
processBikeSensorDataOnChange(s, portPath, message) ==
    LET parts == split(message, ":")
        revolutions == parseInt(At(parts, 1))
        rpm == parseInt(At(parts, 2))
        s1 == [s EXCEPT !.bikeData = [revolutions |-> revolutions, rpm |-> rpm,
                                      isActive |-> JsGt(rpm, 0)]]
    IN  IF Len(parts) >= 4
        THEN IF isNaN(revolutions) \/ isNaN(rpm) \/ JsLt(revolutions, 0)
                  \/ JsLt(rpm, 0)
             THEN s
             ELSE IF revolutions = s.bikeData.revolutions
             THEN s1
             ELSE emit(emit(s1, BikeEvent("bike-data", portPath, revolutions, rpm)),
                       BikeEvent("microbit-data", NoPort, revolutions, rpm))
        ELSE s

\* processBikeSensorData (bike variant).
processBikeSensorData(s, portPath, message) ==
    LET parts == split(message, ":")
        revolutions == parseInt(At(parts, 1))
        rpm == parseInt(At(parts, 2))
    IN  IF Len(parts) >= 4
        THEN IF isNaN(revolutions) \/ isNaN(rpm) \/ JsLt(revolutions, 0)
                  \/ JsLt(rpm, 0)
             THEN s
             ELSE emit(emit([s EXCEPT !.bikeData =
                                 [revolutions |-> revolutions, rpm |-> rpm,
                                  isActive |-> JsGt(rpm, 0)]],
                            BikeEvent("bike-data", portPath, revolutions, rpm)),
                       BikeEvent("microbit-data", NoPort, revolutions, rpm))
        ELSE s

\* resetBikeCounter forwarding the reset without zeroing the local data.
resetBikeCounterRemoteOnly(s) ==
    IF s.bikePort # NoPort
    THEN sendCommand(s, s.bikePort, "RESET_COUNTER")
    ELSE [s EXCEPT !.ret = <<FALSE>>]

\* resetBikeCounter (bike variant).
resetBikeCounter(s) ==
    IF s.bikePort # NoPort
    THEN sendCommand([s EXCEPT !.bikeData = [revolutions |-> 0, rpm |-> 0,
                                             isActive |-> FALSE]],
                     s.bikePort, "RESET_COUNTER")
    ELSE [s EXCEPT !.ret = <<FALSE>>]

\* simulateBikeData(revolutions, rpm) (bike variant): the sample line is
\* built and handed to processBikeSensorData; the line is returned.
simulateBikeData(s, revolutions, rpm) ==
    LET testMessage == BikeRevLine(TokenOf(revolutions), TokenOf(rpm), "1")
    IN  [processBikeSensorData(s, simulated, testMessage)
            EXCEPT !.ret = <<testMessage>>]

\* handleButtonPress telling of a press only when the button was up.
handleButtonPressDebounced(s, buttonNumber) ==
    IF JsGe(buttonNumber, 1) /\ JsLe(buttonNumber, 4)
    THEN IF s.buttonStates[buttonNumber - 1]
         THEN s
         ELSE emit([s EXCEPT !.buttonStates[buttonNumber - 1] = TRUE],
                   ButtonEvent("button-press", buttonNumber,
                               buttonColors[buttonNumber],
                               buttonPositions[buttonNumber], "pressed"))
    ELSE s

\* handleButtonPress (four and bike variants); the arrays of the code are
\* indexed from 0, the sequences here from 1.
handleButtonPress(s, buttonNumber) ==
    IF JsGe(buttonNumber, 1) /\ JsLe(buttonNumber, 4)
    THEN emit([s EXCEPT !.buttonStates[buttonNumber - 1] = TRUE],
              ButtonEvent("button-press", buttonNumber,
                          buttonColors[buttonNumber],
                          buttonPositions[buttonNumber], "pressed"))
    ELSE s

\* handleButtonRelease (four and bike variants).
handleButtonRelease(s, buttonNumber) ==
    IF JsGe(buttonNumber, 1) /\ JsLe(buttonNumber, 4)
    THEN emit([s EXCEPT !.buttonStates[buttonNumber - 1] = FALSE],
              ButtonEvent("button-release", buttonNumber,
                          buttonColors[buttonNumber],
                          buttonPositions[buttonNumber], "released"))
    ELSE s

\* onButtonPress and onButtonRelease (arcade variant).
onButtonPress(s, buttonNumber, color, position) ==
    emit(s, ButtonEvent("button-press", buttonNumber, color, position, "pressed"))
onButtonRelease(s, buttonNumber, color, position) ==
    emit(s, ButtonEvent("button-release", buttonNumber, color, position,
                        "released"))

\* handleDisconnection without the test for the stored connection.
handleDisconnectionUnguarded(s, portPath) ==
    LET buttonNumber == s.buttonMappings[portPath]
        s1 == IF buttonNumber # 0
              THEN [s EXCEPT !.buttonStates[buttonNumber - 1] = FALSE,
                             !.portToButton[buttonNumber] = NoPort]
              ELSE s
    IN  [s1 EXCEPT !.buttonMappings[portPath] = 0,
                   !.connections = @ \ {portPath}]

\* handleDisconnection of the four variant.
handleDisconnection(s, portPath) ==
    IF portPath \in s.connections
    THEN LET buttonNumber == s.buttonMappings[portPath]
             s1 == IF buttonNumber # 0
                   THEN [s EXCEPT !.buttonStates[buttonNumber - 1] = FALSE,
                                  !.portToButton[buttonNumber] = NoPort]
                   ELSE s
         IN  [s1 EXCEPT !.buttonMappings[portPath] = 0,
                        !.connections = @ \ {portPath}]
    ELSE s

\* handleDisconnection of the bike variant.
handleDisconnectionBike(s, portPath) ==
    IF portPath \in s.connections
    THEN LET buttonNumber == s.buttonMappings[portPath]
             s1 == IF s.deviceType[portPath] = "bike" /\ s.bikePort = portPath
                   THEN emit([s EXCEPT !.bikePort = NoPort,
                                       !.bikeData.isActive = FALSE],
                             Event("bike-sensor-disconnected", portPath, 0, "none"))
                   ELSE IF s.deviceType[portPath] = "button"
                   THEN [(IF buttonNumber # 0
                          THEN [s EXCEPT !.buttonStates[buttonNumber - 1] = FALSE,
                                         !.portToButton[buttonNumber] = NoPort]
                          ELSE s)
                         EXCEPT !.buttonMappings[portPath] = 0]
                   ELSE s
         IN  [s1 EXCEPT !.connections = @ \ {portPath},
                        !.deviceType[portPath] = "unknown"]
    ELSE s

\* The port's close handler of the arcade variant: the connection goes, and
\* so does the first entry of microbitMapping that names the port.
closeArcade(s, portPath) ==
    LET m == s.microbitMapping
        hits == {i \in 1..Len(m) : m[i][2] = portPath}
        first == CHOOSE i \in hits : \A j \in hits : i <= j
    IN  [s EXCEPT !.connections = @ \ {portPath},
                  !.microbitMapping =
                      IF hits = {} THEN m ELSE MapDelete(m, m[first][1])]

\* disconnect() forgetting the connections only.
disconnectConnectionsOnly(s) ==
    [s EXCEPT !.connections = {},
              !.deviceType = [p \in Ports |-> "unknown"]]

\* disconnect(): the stored connections and the role maps are cleared; the
\* bike variant also forgets the sensor's port and resets bikeData.  (The
\* ports are closed by the action.)
disconnect(s) ==
    LET s1 == [s EXCEPT !.connections = {},
                        !.deviceType = [p \in Ports |-> "unknown"]]
        s2 == [s1 EXCEPT !.buttonMappings = [p \in Ports |-> 0],
                         !.portToButton = [n \in Buttons |-> NoPort]]
    IN  CASE variant = "four" -> s2
          [] variant = "bike" ->
                [s2 EXCEPT !.bikePort = NoPort,
                           !.bikeData = [revolutions |-> 0, rpm |-> 0,
                                         isActive |-> FALSE]]
          [] variant = "arcade" -> [s1 EXCEPT !.microbitMapping = <<>>]

OnOff(b) == IF b THEN "on" ELSE "off"

\* The LED confirmation branch taking TOGGLE for ON.
ledConfirmedToggleOn(s, portPath, message, minParts) ==
    LET parts == split(message, "_")
        buttonNumber == parseInt(At(parts, 1))
        state == At(parts, 2) = <<"ON">> \/ At(parts, 2) = <<"TOGGLE">>
    IN  IF Len(parts) >= minParts
        THEN emit([s EXCEPT !.ledStates = ArraySet(@, JsDec(buttonNumber), state)],
                  Event("led-confirmed", portPath, buttonNumber, OnOff(state)))
        ELSE s

\* The LED confirmation branch of processMessage, the same in the three
\* variants but for the number of parts it asks for.
ledConfirmed(s, portPath, message, minParts) ==
    LET parts == split(message, "_")
        buttonNumber == parseInt(At(parts, 1))
        state == At(parts, 2) = <<"ON">> \/ At(parts, 2) = <<"TOGGLE">>
        value == IF At(parts, 2) = <<"TOGGLE">>
                 THEN ArrayNot(s.ledStates, JsDec(buttonNumber))
                 ELSE state
    IN  IF Len(parts) >= minParts
        THEN emit([s EXCEPT !.ledStates = ArraySet(@, JsDec(buttonNumber), value)],
                  Event("led-confirmed", portPath, buttonNumber, OnOff(value)))
        ELSE s

\* processMessage of the four variant.
processMessage(s, portPath, message) ==
    LET parts == split(message, "_")
        buttonNumber == parseInt(At(parts, 1))
    IN  IF message = <<>> THEN s
        ELSE IF includes(message, <<"BUTTON", "_">>)
                /\ includes(message, <<"_", "READY">>)
        THEN IF Len(parts) >= 2
             THEN registerButton(s, portPath, buttonNumber) ELSE s
        ELSE IF includes(message, <<"BUTTON", "_">>)
                /\ includes(message, <<"_", "PRESSED">>)
        THEN IF Len(parts) >= 2 THEN handleButtonPress(s, buttonNumber) ELSE s
        ELSE IF includes(message, <<"BUTTON", "_">>)
                /\ includes(message, <<"_", "RELEASED">>)
        THEN IF Len(parts) >= 2 THEN handleButtonRelease(s, buttonNumber) ELSE s
        ELSE IF includes(message, <<"LED", "_">>)
                /\ includes(message, <<"_", "CONFIRMED">>)
        THEN ledConfirmed(s, portPath, message, 2)
        ELSE s

\* processMessage of the bike variant.
processMessageBike(s, portPath, message) ==
    LET parts == split(message, "_")
        buttonNumber == parseInt(At(parts, 1))
    IN  IF message = <<>> THEN s
        ELSE IF startsWith(message, <<"BIKE", "_", "REV", ":">>)
        THEN processBikeSensorData(
                 IF s.bikePort = NoPort THEN registerBikeSensor(s, portPath) ELSE s,
                 portPath, message)
        ELSE IF includes(message, <<"BIKE", " ", "SENSOR", " ", "READY">>)
                \/ includes(message, <<"HW-484">>)
        THEN registerBikeSensor(s, portPath)
        ELSE IF includes(message, <<"BUTTON", "_">>)
                /\ includes(message, <<"_", "READY">>)
        THEN IF Len(parts) >= 2
             THEN registerButtonBike(s, portPath, buttonNumber) ELSE s
        ELSE IF includes(message, <<"BUTTON", "_">>)
                /\ includes(message, <<"_", "PRESSED">>)
        THEN IF Len(parts) >= 2 THEN handleButtonPress(s, buttonNumber) ELSE s
        ELSE IF includes(message, <<"BUTTON", "_">>)
                /\ includes(message, <<"_", "RELEASED">>)
        THEN IF Len(parts) >= 2 THEN handleButtonRelease(s, buttonNumber) ELSE s
        ELSE IF includes(message, <<"LED", "_">>)
                /\ includes(message, <<"_", "CONFIRMED">>)
        THEN ledConfirmed(s, portPath, message, 2)
        ELSE s

\* processMessage of the arcade variant.
processMessageArcade(s, portPath, message) ==
    LET parts == split(message, "_")
        buttonId == parseInt(At(parts, 1))
        buttonNum == JsDec(buttonId)
    IN  IF message = <<>> THEN s
        ELSE IF includes(message, <<"_", "READY">>)
        THEN emit(IF Len(parts) >= 2
                  THEN [s EXCEPT !.microbitMapping = MapSet(@, buttonId, portPath)]
                  ELSE s,
                  Event("microbit-ready", portPath, buttonId, "none"))
        ELSE IF includes(message, <<"BUTTON", "_">>)
                /\ includes(message, <<"_", "PRESSED">>)
        THEN IF JsGe(buttonNum, 0) /\ JsLt(buttonNum, 4)
             THEN onButtonPress([s EXCEPT !.buttonStates[buttonNum] = TRUE],
                                buttonNum + 1, buttonColors[buttonNum + 1],
                                buttonPositions[buttonNum + 1])
             ELSE s
        ELSE IF includes(message, <<"BUTTON", "_">>)
                /\ includes(message, <<"_", "RELEASED">>)
        THEN IF JsGe(buttonNum, 0) /\ JsLt(buttonNum, 4)
             THEN onButtonRelease([s EXCEPT !.buttonStates[buttonNum] = FALSE],
                                  buttonNum + 1, buttonColors[buttonNum + 1],
                                  buttonPositions[buttonNum + 1])
             ELSE s
        ELSE IF includes(message, <<"LED", "_">>)
                /\ includes(message, <<"_", "CONFIRMED">>)
        THEN ledConfirmed(s, portPath, message, 3)
        ELSE s

\* The parser's 'data' handler of the running variant.
OnData(s, portPath, message) ==
    CASE variant = "four" -> processMessage(s, portPath, message)
      [] variant = "bike" -> processMessageBike(s, portPath, message)
      [] variant = "arcade" -> processMessageArcade(s, portPath, message)

\* The port's 'error' handler: the arcade variant only logs.
OnError(s, portPath) ==
    CASE variant = "four" -> handleDisconnection(s, portPath)
      [] variant = "bike" -> handleDisconnectionBike(s, portPath)
      [] variant = "arcade" -> s

\* The port's 'close' handler.
OnClose(s, portPath) ==
    CASE variant = "four" -> handleDisconnection(s, portPath)
      [] variant = "bike" -> handleDisconnectionBike(s, portPath)
      [] variant = "arcade" -> closeArcade(s, portPath)

\* ------------------------------------------------------------ the actions
\* connectToMicrobit(portPath) opening the port: the entry is stored and the
\* handlers are attached in one turn; the four and bike variants also set a
\* timer for the IDENTIFY request.  (A port that fails to open changes
\* nothing that a claim reads.)
connectToMicrobit(portPath) ==
    /\ portState[portPath] = "unopened"
    /\ portState' = [portState EXCEPT ![portPath] = "open"]
    /\ LET s == Called("connect", <<portPath>>)
           s1 == [s EXCEPT !.connections = @ \cup {portPath},
                           !.deviceType[portPath] = "unknown"]
       IN  Becomes(IF variant = "arcade" THEN s1
                   ELSE [s1 EXCEPT !.timers.identify = @ \cup {portPath}])
    /\ UNCHANGED <<variant, device, pat>>

\* A line arrives on an open port.
Data(portPath, message) ==
    /\ portState[portPath] = "open"
    /\ \E s \in {OnData(Called("data", <<portPath, message>>), portPath, message)} :
         Becomes(s)
    /\ UNCHANGED <<variant, device, portState, pat>>

\* The port emits 'error'; it stays open.
PortError(portPath) ==
    /\ portState[portPath] = "open"
    /\ Becomes(OnError(Called("error", <<portPath>>), portPath))
    /\ UNCHANGED <<variant, device, portState, pat>>

\* The port emits 'close': the device went, or port.close() was called.
PortClose(portPath) ==
    /\ portState[portPath] \in {"open", "closing"}
    /\ portState' = [portState EXCEPT ![portPath] = "closed"]
    /\ Becomes(OnClose(Called("close", <<portPath>>), portPath))
    /\ UNCHANGED <<variant, device, pat>>

\* The timer of connectToMicrobit fires: sendCommand(portPath, 'IDENTIFY').
IdentifyTimer(portPath) ==
    /\ portPath \in timers.identify
    /\ LET s == Called("identify", <<portPath>>)
       IN  Becomes(sendCommand([s EXCEPT !.timers.identify = @ \ {portPath}],
                               portPath, "IDENTIFY"))
    /\ UNCHANGED <<variant, device, portState, pat>>

\* The first timer of registerButton fires: setLED(n, true), and the second
\* timer is set.
FlashOnTimer(buttonNumber) ==
    /\ buttonNumber \in timers.flashOn
    /\ \E more \in BOOLEAN :
         LET s == Called("flash", <<buttonNumber>>)
             s1 == SetLed([s EXCEPT !.timers.flashOn =
                               IF more THEN @ ELSE @ \ {buttonNumber}],
                          buttonNumber, TRUE)
         IN  Becomes([s1 EXCEPT !.timers.flashOff = @ \cup {buttonNumber}])
    /\ UNCHANGED <<variant, device, portState, pat>>

\* The second timer of registerButton fires: setLED(n, false).
FlashOffTimer(buttonNumber) ==
    /\ buttonNumber \in timers.flashOff
    /\ \E more \in BOOLEAN :
         LET s == Called("flash", <<buttonNumber>>)
         IN  Becomes(SetLed([s EXCEPT !.timers.flashOff =
                                 IF more THEN @ ELSE @ \ {buttonNumber}],
                            buttonNumber, FALSE))
    /\ UNCHANGED <<variant, device, portState, pat>>

\* The game layer calls setLED(buttonNumber, state) (main.js, 'set-led').
CallSetLED(buttonNumber, state) ==
    /\ Becomes(SetLed(Called("setLED", <<buttonNumber, OnOff(state)>>),
                       buttonNumber, state))
    /\ UNCHANGED <<variant, device, portState, pat>>

\* The game layer calls setAllLEDs(state) (main.js, 'set-all-leds').
CallSetAllLEDs(state) ==
    /\ \E s \in {setAllLEDs(Called("setAllLEDs", <<OnOff(state)>>), state)} :
         Becomes(s)
    /\ UNCHANGED <<variant, device, portState, pat>>

\* The game layer calls chaseLEDs(rounds, speed); one pattern runs at a time
\* here.
CallChaseLEDs(rounds) ==
    /\ pat.name = "idle"
    /\ \E s \in {chaseLEDs(Called("chaseLEDs", <<rounds>>))} : Becomes(s)
    /\ pat' = [name |-> "chaseLEDs", pc |-> "lit", i |-> 1, round |-> 0,
               rounds |-> rounds, button |-> 0, order |-> <<>>]
    /\ UNCHANGED <<variant, device, portState>>

\* The delay of chaseLEDs is over.
ChaseLEDsResume ==
    /\ pat.name = "chaseLEDs"
    /\ \E s \in {chaseLEDsResumed(Resumed("chaseLEDs"), pat)} : Becomes(s)
    /\ pat' = chaseLEDsNext(pat)
    /\ UNCHANGED <<variant, device, portState>>

\* The game layer calls flashLED(buttonNumber, times, duration).
CallFlashLED(buttonNumber, times) ==
    /\ pat.name = "idle"
    /\ \E s \in {SetLed(Called("flashLED", <<buttonNumber, times>>),
                         buttonNumber, TRUE)} : Becomes(s)
    /\ pat' = [name |-> "flashLED", pc |-> "lit", i |-> 0, round |-> 0,
               rounds |-> times, button |-> buttonNumber, order |-> <<>>]
    /\ UNCHANGED <<variant, device, portState>>

\* A delay of flashLED is over.
FlashLEDResume ==
    /\ pat.name = "flashLED"
    /\ \E s \in {flashLEDResumed(Resumed("flashLED"), pat)} : Becomes(s)
    /\ pat' = flashNext(pat)
    /\ UNCHANGED <<variant, device, portState>>

\* The game layer calls flashAllLEDs(times, duration).
CallFlashAllLEDs(times) ==
    /\ pat.name = "idle"
    /\ \E s \in {setAllLEDs(Called("flashAllLEDs", <<times>>), TRUE)} : Becomes(s)
    /\ pat' = [name |-> "flashAllLEDs", pc |-> "lit", i |-> 0, round |-> 0,
               rounds |-> times, button |-> 0, order |-> <<>>]
    /\ UNCHANGED <<variant, device, portState>>

\* A delay of flashAllLEDs is over.
FlashAllLEDsResume ==
    /\ pat.name = "flashAllLEDs"
    /\ \E s \in {flashAllLEDsResumed(Resumed("flashAllLEDs"), pat)} : Becomes(s)
    /\ pat' = flashNext(pat)
    /\ UNCHANGED <<variant, device, portState>>

\* The game layer calls resetBikeCounter().
CallResetBikeCounter ==
    /\ variant = "bike"
    /\ Becomes(resetBikeCounter(Called("resetBikeCounter", <<>>)))
    /\ UNCHANGED <<variant, device, portState, pat>>

\* The game layer calls simulateBikeData(revolutions, rpm).
CallSimulateBikeData(revolutions, rpm) ==
    /\ variant = "bike"
    /\ Becomes(simulateBikeData(Called("simulateBikeData", <<revolutions, rpm>>),
                                revolutions, rpm))
    /\ UNCHANGED <<variant, device, portState, pat>>

\* The game layer calls randomLEDSequence(count, onDuration, offDuration,
\* totalSequences); the four-button build has no such method.
CallRandomLEDSequence(count, totalSequences) ==
    /\ variant # "four"
    /\ pat.name = "idle"
    /\ \E order \in RandomOrders(count) :
         /\ \E s \in {randomLEDSequence(
                           Called("randomLEDSequence", <<count, totalSequences>>),
                           order)} : Becomes(s)
         /\ pat' = [name |-> "randomLEDSequence", pc |-> "lit", i |-> 1,
                    round |-> 0, rounds |-> totalSequences, button |-> 0,
                    order |-> order]
    /\ UNCHANGED <<variant, device, portState>>

\* A delay of randomLEDSequence is over.
RandomLEDSequenceResume ==
    /\ pat.name = "randomLEDSequence"
    /\ \E order \in (IF pat.pc = "pause" THEN RandomOrders(Len(pat.order))
                      ELSE {pat.order}) :
         /\ \E s \in {randomLEDSequenceResumed(Resumed("randomLEDSequence"),
                                                pat, order)} : Becomes(s)
         /\ pat' = randomLEDSequenceNext(pat, order)
    /\ UNCHANGED <<variant, device, portState>>

\* The game layer calls simonSaysPattern(patternLength, playbackSpeed); the
\* four-button build has no such method.
CallSimonSaysPattern(patternLength) ==
    /\ variant # "four"
    /\ pat.name = "idle"
    /\ \E pattern \in SimonPatterns(patternLength) :
         /\ \E s \in {simonSaysPattern(
                           Called("simonSaysPattern", <<patternLength>>),
                           pattern)} : Becomes(s)
         /\ pat' = IF patternLength = 0
                   THEN Idle
                   ELSE [name |-> "simonSaysPattern", pc |-> "lit", i |-> 1,
                         round |-> 0, rounds |-> patternLength, button |-> 0,
                         order |-> pattern]
    /\ UNCHANGED <<variant, device, portState>>

\* A delay of simonSaysPattern is over.
SimonSaysPatternResume ==
    /\ pat.name = "simonSaysPattern"
    /\ \E s \in {simonSaysPatternResumed(Resumed("simonSaysPattern"), pat)} :
         Becomes(s)
    /\ pat' = simonSaysPatternNext(pat)
    /\ UNCHANGED <<variant, device, portState>>

\* The game layer calls randomCascade(waves, waveSpeed); the four-button build
\* has no such method.
CallRandomCascade(waves) ==
    /\ variant # "four"
    /\ pat.name = "idle"
    /\ \E order \in CascadeOrders :
         /\ \E s \in {randomCascade(Called("randomCascade", <<waves>>),
                                    waves, order)} : Becomes(s)
         /\ pat' = IF 0 < waves
                   THEN [name |-> "randomCascade", pc |-> "on", i |-> 1,
                         round |-> 0, rounds |-> waves, button |-> 0,
                         order |-> order]
                   ELSE Idle
    /\ UNCHANGED <<variant, device, portState>>

\* A delay of randomCascade is over.
RandomCascadeResume ==
    /\ pat.name = "randomCascade"
    /\ \E order \in (IF (variant = "arcade" /\ pat.pc = "pause")
                        \/ (variant # "arcade" /\ pat.i = Len(pat.order))
                     THEN CascadeOrders ELSE {pat.order}) :
         /\ \E s \in {randomCascadeResumed(Resumed("randomCascade"),
                                           pat, order)} : Becomes(s)
         /\ pat' = randomCascadeNext(pat, order)
    /\ UNCHANGED <<variant, device, portState>>

\* disconnect() is called (main.js, 'restart-microbit-controller', and the
\* application's exit): port.close() is called for every stored connection,
\* whose port then delivers nothing but its 'close'.
CallDisconnect ==
    /\ portState' = [p \in Ports |->
                        IF p \in connections /\ portState[p] = "open"
                        THEN "closing" ELSE portState[p]]
    /\ \E s \in {disconnect(Called("disconnect", <<>>))} : Becomes(s)
    /\ UNCHANGED <<variant, device, pat>>

\* ----------------------------------------------------- the wire history
\* Whose commands a port has been getting since the running pattern first
\* wrote to it: nobody's, the pattern's, or another caller's after the
\* pattern's.
Streams == {"none", "pattern", "other"}

PatternNames == {"chaseLEDs", "flashLED", "flashAllLEDs"}

\* wire follows the step's writes while a pattern runs.
Traced ==
    wire' = [p \in Ports |->
                LET hit == \E i \in 1..Len(written') : written'[i].port = p
                IN  IF pat'.name = "idle" THEN "none"
                    ELSE IF Caller(call') \in PatternNames
                    THEN IF hit THEN "pattern"
                         ELSE IF pat.name = "idle" THEN "none" ELSE wire[p]
                    ELSE IF hit /\ wire[p] = "pattern" THEN "other"
                    ELSE wire[p]]

\* ---------------------------------------------- the registry, specified
\* The lines by which the device on a port takes its role.
RegistryLines(p) ==
    IF device[p] = "bike"
    THEN {BikeReadyLine, BikeRevLine("0", "0", "0")}
    ELSE {ReadyLine(device[p])}

Connect == \E p \in Ports : connectToMicrobit(p) /\ UNCHANGED wire
Receive == \E p \in Ports : \E m \in RegistryLines(p) : Data(p, m) /\ UNCHANGED wire
Error == \E p \in Ports : PortError(p) /\ UNCHANGED wire
Close == \E p \in Ports : PortClose(p) /\ UNCHANGED wire
SetLEDCalled ==
    \E n \in Buttons, state \in BOOLEAN : CallSetLED(n, state) /\ UNCHANGED wire

Next ==
    \/ Connect
    \/ Receive
    \/ Error
    \/ Close
    \/ SetLEDCalled

Spec == Init /\ [][Next]_vars

\* ---------------------------------------------- the LED states, specified
\* The lines of a button device here: its READY line and the confirmations
\* of LED commands, which carry the device's own number.
LedWords == {"ON", "OFF", "TOGGLE"}

LedLines(p) ==
    IF device[p] = "bike"
    THEN {}
    ELSE {ReadyLine(device[p])} \cup {LedLine(device[p], w) : w \in LedWords}

ReceiveLed == \E p \in Ports : \E m \in LedLines(p) : Data(p, m) /\ UNCHANGED wire

NextLed ==
    \/ Connect
    \/ ReceiveLed
    \/ Close
    \/ SetLEDCalled

SpecLed == Init /\ [][NextLed]_vars

\* ------------------------------------------------ the patterns, specified
\* Ports open and close and devices announce themselves while one pattern
\* runs and the game layer calls setAllLEDs; wire follows the writes.
ConnectTraced == \E p \in Ports : connectToMicrobit(p) /\ Traced
ReadyTraced == \E p \in Ports : Data(p, ReadyLine(device[p])) /\ Traced
CloseTraced == \E p \in Ports : PortClose(p) /\ Traced
SetAllLEDsCalled == \E state \in BOOLEAN : CallSetAllLEDs(state) /\ Traced
ChaseLEDsCalled == \E rounds \in 1..MaxRounds : CallChaseLEDs(rounds) /\ Traced
FlashLEDCalled ==
    \E n \in 1..MaxRole, times \in 1..MaxRounds : CallFlashLED(n, times) /\ Traced
FlashAllLEDsCalled ==
    \E times \in 1..MaxRounds : CallFlashAllLEDs(times) /\ Traced
ChaseLEDsResumes == ChaseLEDsResume /\ Traced
FlashLEDResumes == FlashLEDResume /\ Traced
FlashAllLEDsResumes == FlashAllLEDsResume /\ Traced

PatternResumes == ChaseLEDsResumes \/ FlashLEDResumes \/ FlashAllLEDsResumes

NextPattern ==
    \/ ConnectTraced
    \/ ReadyTraced
    \/ CloseTraced
    \/ SetAllLEDsCalled
    \/ ChaseLEDsCalled
    \/ FlashLEDCalled
    \/ FlashAllLEDsCalled
    \/ ChaseLEDsResumes
    \/ FlashLEDResumes
    \/ FlashAllLEDsResumes

\* Here every port has a button of its own, as far as the roles go.
InitPattern ==
    /\ InitController
    /\ device = [p \in Ports |-> TokenOf(((p - 1) % MaxRole) + 1)]
    /\ wire = [p \in Ports |-> "none"]

\* A delay is a timer of the event loop: it fires.
SpecPattern == InitPattern /\ [][NextPattern]_vars /\ WF_vars(PatternResumes)

\* ------------------------------------------------ the registry's properties
\* The port the role map gives for role n: portToButton in the four and bike
\* variants, microbitMapping in the arcade variant.
RoleHolder(n) ==
    IF variant = "arcade" THEN MapGet(microbitMapping, n) ELSE portToButton[n]

\* The same after the step.
RoleHolderAfter(n) ==
    IF variant = "arcade" THEN MapGet(microbitMapping', n) ELSE portToButton'[n]

\* The role has a holder and the holder's connection is stored.
Live(n) == RoleHolder(n) # NoPort /\ RoleHolder(n) \in connections

ReadyEvent(p, n) == Event("microbit-ready", p, n, "none")

\* C1: no role (button role or the bike sensor's) is held by a port whose
\* connection is gone.
C1_NoRoleOnDeadConnection ==
    /\ \A n \in Buttons : RoleHolder(n) # NoPort => RoleHolder(n) \in connections
    /\ bikePort # NoPort => bikePort \in connections

\* C2: the role map and its inverse are exact inverses of each other (four
\* and bike variants), and no port holds two roles.
C2_RoleDeviceBijection ==
    /\ variant # "arcade" =>
          /\ \A p \in Ports : buttonMappings[p] # 0 =>
                                portToButton[buttonMappings[p]] = p
          /\ \A n \in Buttons : portToButton[n] # NoPort =>
                                  buttonMappings[portToButton[n]] = n
    /\ \A n, m \in Buttons :
          n # m /\ RoleHolder(n) # NoPort => RoleHolder(n) # RoleHolder(m)

\* C3: right after a READY line for role n in 1..4 from port P is processed,
\* the role map has exactly one entry for n, it names P, and P's connection
\* is live.
C3_ReadyMapsRoleToLivePort ==
    \A p \in Ports, n \in Buttons :
        call = <<"data", p, ReadyLine(TokenOf(n))>> =>
            /\ RoleHolder(n) = p
            /\ variant = "arcade" =>
                  Cardinality({j \in 1..Len(microbitMapping) :
                                  microbitMapping[j][1] = n}) = 1
            /\ p \in connections

\* C4: when the port that holds role R closes or errors, R is absent from
\* the role map afterwards; and when a READY for R then comes from a live
\* port Q, R is mapped to Q and a setLED for R is written to Q.
C4_DisconnectFreesRole ==
    [][/\ \A p \in Ports, n \in Buttons :
             call' \in {<<"close", p>>, <<"error", p>>} /\ RoleHolder(n) = p =>
                 RoleHolder(n)' = NoPort
       /\ \A q \in Ports, n \in Buttons :
             /\ RoleHolder(n) = NoPort
                /\ call' = <<"data", q, ReadyLine(TokenOf(n))>> =>
                   RoleHolder(n)' = q
             /\ RoleHolder(n) = q /\ q \in connections =>
                   \A state \in BOOLEAN :
                       SetLed(Begin("setLED"), n, state).written =
                           <<[port |-> q,
                              cmd |-> IF state THEN "LED_ON" ELSE "LED_OFF",
                              by |-> "setLED"]>>]_vars

\* C5: when role R is held by live port A and a READY for R comes from another
\* live port B, R is mapped to B, A's connection stays stored and its port
\* open, and every setLED for a role writes to the role's current holder
\* only (so not to A while B holds R).
C5_LastIdentificationWins ==
    [][/\ \A r \in Buttons :
             LET a == RoleHolder(r)
             IN  \A b \in connections \ {a} :
                     /\ a \in connections
                     /\ call' = <<"data", b, ReadyLine(TokenOf(r))>>
                     => /\ RoleHolderAfter(r) = b
                        /\ a \in connections'
                        /\ portState'[a] = "open"
                        /\ written' = <<>>
       /\ call'[1] = "setLED" =>
             \A i \in 1..Len(written') : written'[i].port = RoleHolder(call'[2])]_vars

\* C5's case: B holds role r, port A that announced r before is still
\* connected, and a setLED for r has just been written to B.
C5_Witness ==
    \E a, b \in Ports, r \in Buttons :
        /\ a # b /\ {a, b} \subseteq connections
        /\ device[a] = TokenOf(r) /\ device[b] = TokenOf(r)
        /\ RoleHolder(r) = b
        /\ variant # "arcade" => buttonMappings[a] = r
        /\ call = <<"setLED", r, "on">>
        /\ written = <<[port |-> b, cmd |-> "LED_ON", by |-> "setLED"]>>

\* C8: a setLED for a role that has no live connection returns false, writes
\* nothing and leaves every tracked LED state as it was.
C8_SetLedWithoutConnection ==
    [][\A n \in Buttons :
          /\ call' \in {<<"setLED", n, "on">>, <<"setLED", n, "off">>}
          /\ ~Live(n)
          => /\ ret' = <<FALSE>>
             /\ written' = <<>>
             /\ ledStates' = ledStates]_vars

\* C8's case: every port of a device of role 1 has closed, and a setLED for
\* role 1 has returned false.
C8_Witness ==
    /\ call = <<"setLED", 1, "on">>
    /\ ret = <<FALSE>>
    /\ written = <<>>
    /\ \E p \in Ports : device[p] = "1" /\ portState[p] = "closed"
    /\ \A p \in Ports : device[p] = "1" => portState[p] = "closed"

\* ---------------------------------------------- the LED states' properties
\* C9: when setLED(role, true) has returned true, ledStates[role - 1] is true
\* in the state the call leaves, before any confirmation is processed; and
\* false likewise after setLED(role, false).
C9_OptimisticLedState ==
    \A n \in Buttons :
        /\ call = <<"setLED", n, "on">> /\ ret = <<TRUE>> => ledStates[n - 1] = TRUE
        /\ call = <<"setLED", n, "off">> /\ ret = <<TRUE>> => ledStates[n - 1] = FALSE

\* C10: processing LED_<n>_ON_CONFIRMED, LED_<n>_OFF_CONFIRMED or
\* LED_<n>_TOGGLE_CONFIRMED for a role n in 1..4 sets ledStates[n - 1] to on,
\* to off, or to its negation, and leaves the other roles' LED states
\* unchanged.
C10_LedConfirmation ==
    [][call'[1] = "data" =>
       \A p \in Ports, n \in Buttons, w \in LedWords :
          call' = <<"data", p, LedLine(TokenOf(n), w)>> =>
              ledStates' = [ledStates EXCEPT
                               ![n - 1] = CASE w = "ON" -> TRUE
                                            [] w = "OFF" -> FALSE
                                            [] w = "TOGGLE" -> ~ledStates[n - 1]]]_vars

\* C10's case: a TOGGLE confirmation has just turned role 2's LED off while role
\* 1's LED, confirmed on before, stays on.
C10_Witness ==
    /\ \E p \in Ports : call = <<"data", p, LedLine("2", "TOGGLE")>>
    /\ ledStates[0] = TRUE
    /\ ledStates[1] = FALSE

\* ------------------------------------------------ the patterns' properties
\* The step's writes are its successful setLED calls, in the order of the
\* calls, each to the port that holds the role.
WrittenInCallOrder ==
    LET ok == SelectSeq(led, LAMBDA c : c.result)
    IN  written = [k \in 1..Len(ok) |->
                      [port |-> RoleHolder(ok[k].button),
                       cmd |-> IF ok[k].state = "on" THEN "LED_ON" ELSE "LED_OFF",
                       by |-> Caller(call)]]

\* C6: the commands for one device are written in the order they were
\* submitted, and a pattern's commands to a device are never interleaved
\* with those of another caller: the pattern does not write to a device
\* that got another caller's command after the pattern's last one.
C6_NoInterleavedStreams ==
    [][/\ WrittenInCallOrder'
       /\ \A i \in 1..Len(written') :
             written'[i].by \in PatternNames => wire[written'[i].port] # "other"]_vars

\* C7: a pattern in progress completes whatever disconnects meanwhile; every
\* setLED it makes returns true exactly for a role with a live connection
\* (false, and no throw, for a role whose device is gone), and the
\* successful ones are written.
C7_PatternOutlivesDisconnect ==
    /\ [](\A k \in 1..Len(led) : led[k].result = Live(led[k].button))
    /\ []WrittenInCallOrder
    /\ (pat.name # "idle") ~> (pat.name = "idle")

\* C7's case: chaseLEDs lit LED 1, the device of role 1 closed during the
\* delay, and the pattern went on: LED 1 off returned false and LED 2 on was
\* written.
C7_Witness ==
    /\ call = <<"resume", "chaseLEDs">>
    /\ pat.name = "chaseLEDs" /\ pat.i = 2
    /\ led = <<[button |-> 1, state |-> "off", result |-> FALSE],
               [button |-> 2, state |-> "on", result |-> TRUE]>>
    /\ \E p \in Ports :
          device[p] = "1" /\ portState[p] = "closed" /\ wire[p] = "pattern"

\* ------------------------------------------- the cadence sensor, specified
\* The counts and the rates a sample line may carry.
Counts == 0..MaxCount
Rates == 0..2
\* A negative number, and text that is no number.
BadTokens == {"-1", "x"}

\* The valid sample lines, and those with a bad count or a bad rate.
ValidSamples == {BikeRevLine(TokenOf(c), TokenOf(r), "1") : c \in Counts, r \in Rates}
InvalidSamples ==
    {BikeRevLine(b, "1", "1") : b \in BadTokens}
        \cup {BikeRevLine("1", b, "1") : b \in BadTokens}

\* The lines of a sensor: its ready line and its samples.
BikeLines(p) ==
    IF device[p] = "bike"
    THEN {BikeReadyLine} \cup ValidSamples \cup InvalidSamples
    ELSE {}

ReceiveBike == \E p \in Ports : \E m \in BikeLines(p) : Data(p, m) /\ UNCHANGED wire
ResetBikeCounterCalled == CallResetBikeCounter /\ UNCHANGED wire
SimulateBikeDataCalled ==
    \E revolutions \in Counts \cup {-1}, rpm \in {0, 1} :
        CallSimulateBikeData(revolutions, rpm) /\ UNCHANGED wire

NextBike ==
    \/ Connect
    \/ ReceiveBike
    \/ Error
    \/ Close
    \/ ResetBikeCounterCalled
    \/ SimulateBikeDataCalled

\* The bike snapshot is the one with a cadence sensor; the devices here are
\* sensors.
InitBike == Init /\ variant = "bike" /\ \A p \in Ports : device[p] = "bike"

SpecBike == InitBike /\ [][NextBike]_vars

\* ----------------------------------------- the cadence sensor's properties
\* The step processed the sample line (count c, rate r) from port p's device.
SampleReceived(p, c, r) ==
    call' = <<"data", p, BikeRevLine(TokenOf(c), TokenOf(r), "1")>>

\* C11: on a valid cadence sample the stored revolution count becomes the
\* sample's count if that is greater than the stored count, and stays as it
\* was otherwise.
C11_CountReplacedOnlyWhenGreater ==
    [][call'[1] = "data" =>
       \A p \in Ports, c \in Counts, r \in Rates :
           SampleReceived(p, c, r) =>
               bikeData'.revolutions =
                   IF c > bikeData.revolutions THEN c ELSE bikeData.revolutions]_vars

\* C12: on every valid cadence sample the stored rpm becomes the sample's rpm,
\* and a sample whose count is not greater than the stored count leaves the
\* stored count as it was (stored count 3 and the sample (2, 50): the count
\* stays 3, the rpm becomes 50).
C12_RpmAlwaysCountKept ==
    [][call'[1] = "data" =>
       \A p \in Ports, c \in Counts, r \in Rates :
           SampleReceived(p, c, r) =>
               /\ bikeData'.rpm = r
               /\ c <= bikeData.revolutions =>
                      bikeData'.revolutions = bikeData.revolutions]_vars

\* C13: the stored revolution count never decreases from one state to the
\* next, but for resetBikeCounter setting it to zero.
C13_CountNeverDecreases ==
    [][\/ bikeData'.revolutions >= bikeData.revolutions
       \/ call'[1] = "resetBikeCounter" /\ bikeData'.revolutions = 0]_vars

\* The events of a cadence sample among those the step emitted.
CadenceEvents(events) ==
    SelectSeq(events, LAMBDA e : e.type \in {"bike-data", "microbit-data"})

\* C14: a cadence sample whose count or rpm is negative or no number, from a
\* device or simulated, leaves the stored revolutions, rpm and active flag
\* as they were and emits no cadence event; the handler returns normally.
C14_InvalidSampleDropped ==
    [][/\ call'[1] = "data" =>
             \A p \in Ports, m \in InvalidSamples :
                 call' = <<"data", p, m>> =>
                     bikeData' = bikeData /\ CadenceEvents(emitted') = <<>>
       /\ call'[1] = "simulateBikeData" /\ (call'[2] < 0 \/ call'[3] < 0) =>
             bikeData' = bikeData /\ CadenceEvents(emitted') = <<>>]_vars

\* C14's case: a sample whose count is no number has just been processed, and
\* the count and rpm stored before are still there.
C14_Witness ==
    /\ \E p \in Ports : call = <<"data", p, BikeRevLine("x", "1", "1")>>
    /\ emitted = <<>>
    /\ bikeData = [revolutions |-> 2, rpm |-> 2, isActive |-> TRUE]

\* C15: resetBikeCounter with a sensor registered sets the stored revolutions
\* and rpm to zero; RESET_COUNTER is written to the sensor's port, and to no
\* other, when the port's connection is stored, and the call returns true
\* exactly when that write was made.
C15_ResetBikeCounter ==
    [][call'[1] = "resetBikeCounter" /\ bikePort # NoPort =>
          /\ bikeData'.revolutions = 0
          /\ bikeData'.rpm = 0
          /\ written' = IF bikePort \in connections
                        THEN <<[port |-> bikePort, cmd |-> "RESET_COUNTER",
                                by |-> "resetBikeCounter"]>>
                        ELSE <<>>
          /\ ret' = <<written' # <<>> >>]_vars

\* C15's case: the sensor on port 2 is registered and connected, and a reset
\* has been written to port 2 and has returned true.
C15_Witness ==
    /\ call = <<"resetBikeCounter">>
    /\ bikePort = 2
    /\ written = <<[port |-> 2, cmd |-> "RESET_COUNTER", by |-> "resetBikeCounter"]>>
    /\ ret = <<TRUE>>
    /\ bikeData = [revolutions |-> 0, rpm |-> 0, isActive |-> FALSE]

\* C17: every valid cadence sample line received from a device makes the
\* controller emit exactly one bike-data event, with the port, the count and
\* the rpm of that sample.
C17_OneEventPerSample ==
    [][call'[1] = "data" =>
       \A p \in Ports, c \in Counts, r \in Rates :
           SampleReceived(p, c, r) =>
               SelectSeq(emitted', LAMBDA e : e.type = "bike-data")
                   = <<BikeEvent("bike-data", p, c, r)>>]_vars

\* C17's case: a sample has been received from a sensor that is not the
\* registered one, and its event has been emitted.
C17_Witness ==
    \E p \in Ports :
        /\ call = <<"data", p, BikeRevLine("0", "2", "1")>>
        /\ emitted = <<BikeEvent("bike-data", p, 0, 2),
                       BikeEvent("microbit-data", NoPort, 0, 2)>>
        /\ bikePort # p

\* ------------------------------------------- the status events' properties
\* C18: when the port of a device that holds a role (a button role, or the
\* cadence sensor's) closes, the controller emits a disconnected event for
\* that port.
C18_DisconnectEventEmitted ==
    [][\A p \in Ports :
          /\ call' = <<"close", p>>
          /\ p \in connections
          /\ bikePort = p \/ \E n \in Buttons : RoleHolder(n) = p
          => \E i \in 1..Len(emitted') :
                 /\ emitted'[i].port = p
                 /\ emitted'[i].type \in {"bike-sensor-disconnected",
                                          "microbit-disconnected",
                                          "device-disconnected"}]_vars

\* ------------------------------------------------- the input, specified
\* The lines of a button device here: its READY line, the presses and
\* releases of its button, and lines of no known shape: the empty line, free
\* text, a ready banner that names no button, a sample cut short.
UnknownLines ==
    {<<>>, <<"HELLO">>, <<"SYSTEM", "_", "READY">>,
     <<"BIKE", "_", "REV", ":", "1">>}

InputLines(p) ==
    {ReadyLine(device[p]), PressedLine(device[p]), ReleasedLine(device[p])}
        \cup UnknownLines

ReceiveInput == \E p \in Ports : \E m \in InputLines(p) : Data(p, m) /\ UNCHANGED wire

NextInput ==
    \/ Connect
    \/ ReceiveInput
    \/ Close

\* The devices here are buttons.
InitInput == Init /\ \A p \in Ports : device[p] # "bike"

SpecInput == InitInput /\ [][NextInput]_vars

\* ------------------------------------------------- the input's properties
\* C16: every BUTTON_<n>_PRESSED line with n in 1..4 makes the controller
\* emit exactly one button-press event with role n, the colour and the
\* position of role n and the state 'pressed', and sets buttonStates[n - 1];
\* every BUTTON_<n>_RELEASED line likewise one button-release event, and
\* clears it; whether the button was down or up before makes no difference.
C16_EveryEdgeReported ==
    [][call'[1] = "data" =>
       \A p \in Ports, n \in Buttons :
          /\ call' = <<"data", p, PressedLine(TokenOf(n))>> =>
                /\ emitted' = <<ButtonEvent("button-press", n, buttonColors[n],
                                            buttonPositions[n], "pressed")>>
                /\ buttonStates' = [buttonStates EXCEPT ![n - 1] = TRUE]
          /\ call' = <<"data", p, ReleasedLine(TokenOf(n))>> =>
                /\ emitted' = <<ButtonEvent("button-release", n, buttonColors[n],
                                            buttonPositions[n], "released")>>
                /\ buttonStates' = [buttonStates EXCEPT ![n - 1] = FALSE]]_vars

\* C16's case: the press of button 2 has been reported while the buttons 1
\* and 2 are down.
C16_Witness ==
    /\ \E p \in Ports : call = <<"data", p, PressedLine("2")>>
    /\ emitted = <<ButtonEvent("button-press", 2, "WHITE", "MIDDLE-LEFT", "pressed")>>
    /\ buttonStates = [i \in 0..(NumButtons - 1) |-> i \in {0, 1}]

\* C19: processing a line of no known shape, or an empty line, changes no
\* role mapping and no button, LED or cadence state and emits no event.
C19_UnknownLineIgnored ==
    [][call'[1] = "data" =>
       \A p \in Ports, m \in UnknownLines :
           call' = <<"data", p, m>> =>
               /\ emitted' = <<>>
               /\ UNCHANGED <<buttonMappings, portToButton, microbitMapping,
                              bikePort, bikeData, buttonStates, ledStates>>]_vars

\* ----------------------------------------- the random sequence, specified
\* Devices connect and announce themselves while randomLEDSequence(4, ...)
\* plays its sequences.
RandomLEDSequenceCalled ==
    \E totalSequences \in 1..MaxRounds :
        CallRandomLEDSequence(NumButtons, totalSequences) /\ UNCHANGED wire
RandomLEDSequenceResumes == RandomLEDSequenceResume /\ UNCHANGED wire
ReadyReceived == \E p \in Ports : Data(p, ReadyLine(device[p])) /\ UNCHANGED wire

NextRandom ==
    \/ Connect
    \/ ReadyReceived
    \/ RandomLEDSequenceCalled
    \/ RandomLEDSequenceResumes

\* The snapshots that have randomLEDSequence.
InitRandom == InitPattern /\ variant # "four"

SpecRandom == InitRandom /\ [][NextRandom]_vars

\* C20: in every sequence played by randomLEDSequence(4, ...) the roles lit
\* so far are distinct, each ON command is for the role the order gives at
\* its place, and when the last one is lit the roles lit are 1, 2, 3 and 4.
C20_SequenceIsPermutation ==
    pat.name = "randomLEDSequence" /\ Len(pat.order) = NumButtons =>
        /\ \A k, l \in 1..pat.i : k # l => pat.order[k] # pat.order[l]
        /\ pat.pc = "lit" /\ call # <<>> /\ Caller(call) = "randomLEDSequence" =>
               led[Len(led)] = [button |-> pat.order[pat.i], state |-> "on",
                                result |-> Live(pat.order[pat.i])]
        /\ pat.i = NumButtons => {pat.order[k] : k \in 1..pat.i} = Buttons

\* -------------------------------------------- the Simon pattern, specified
\* Devices connect, announce themselves and close while simonSaysPattern
\* plays.
SimonSaysPatternCalled ==
    \E patternLength \in 0..MaxPattern :
        CallSimonSaysPattern(patternLength) /\ UNCHANGED wire
SimonSaysPatternResumes == SimonSaysPatternResume /\ UNCHANGED wire

NextSimon ==
    \/ Connect
    \/ ReadyReceived
    \/ Close
    \/ SimonSaysPatternCalled
    \/ SimonSaysPatternResumes

SpecSimon == InitRandom /\ [][NextSimon]_vars

\* The buttons of the setLED(on) calls of the step, in the order of the calls.
LitBy(calls) ==
    LET on == SelectSeq(calls, LAMBDA c : c.state = "on")
    IN  [k \in 1..Len(on) |-> on[k].button]

\* C21: simonSaysPattern(n, ...) plays a pattern of n elements of 1..4: the
\* k-th setLED(on) it makes is for the pattern's k-th element, and what it
\* returns, after the n-th, is that pattern.
C21_SimonReturnsWhatItPlayed ==
    [][call' # <<>> /\ Caller(call') = "simonSaysPattern" =>
          LET p == IF call'[1] = "resume" THEN pat ELSE pat'
              lit == IF pat'.name = "idle" THEN p.i ELSE pat'.i
          IN  /\ pat'.name # "idle" =>
                    /\ Len(pat'.order) = pat'.rounds
                    /\ \A k \in 1..Len(pat'.order) : pat'.order[k] \in 1..4
                    /\ pat'.order = p.order
                    /\ LitBy(led') = IF pat'.pc = "lit"
                                     THEN <<pat'.order[pat'.i]>> ELSE <<>>
                    /\ pat'.pc = "lit" => pat'.i = (IF call'[1] = "resume"
                                                    THEN pat.i + 1 ELSE 1)
                    /\ pat'.pc = "dark" => pat'.i = pat.i
              /\ pat'.name = "idle" =>
                    /\ LitBy(led') = <<>>
                    /\ lit = Len(p.order)
                    /\ ret' = <<p.order>>
                    /\ call'[1] # "resume" => call'[2] = 0 /\ ret' = << <<>> >>]_vars

\* C21's case: simonSaysPattern(2) has played 1 then 2 and returned <<1, 2>>.
C21_Witness ==
    /\ call = <<"resume", "simonSaysPattern">>
    /\ pat.name = "idle"
    /\ ret = << <<1, 2>> >>

\* ------------------------------------------------- the chase, specified
\* Devices connect, announce themselves and close while chaseLEDs runs its
\* rounds.
ChaseLEDsStarted ==
    \E rounds \in 1..(MaxRounds + 1) : CallChaseLEDs(rounds) /\ UNCHANGED wire
ChaseLEDsGoesOn == ChaseLEDsResume /\ UNCHANGED wire

NextChase ==
    \/ Connect
    \/ ReadyReceived
    \/ Close
    \/ ChaseLEDsStarted
    \/ ChaseLEDsGoesOn

SpecChase == InitPattern /\ [][NextChase]_vars

\* The setLED calls of the step: the buttons and the states asked for.
Asked(calls) == [k \in 1..Len(calls) |-> <<calls[k].button, calls[k].state>>]

\* C22: chaseLEDs(rounds, speed) begins with role 1 on; each time its delay is
\* over it turns the lit role off and then the next role on, 1, 2, 3, 4 in
\* every round, and it ends with role 4 off in round number rounds: 4 x
\* rounds on/off pairs, each role's OFF before the next role's ON.
C22_ChaseOrder ==
    [][call' # <<>> /\ Caller(call') = "chaseLEDs" =>
          IF call'[1] = "chaseLEDs"
          THEN /\ Asked(led') = << <<1, "on">> >>
               /\ pat'.i = 1 /\ pat'.round = 0 /\ pat'.rounds = call'[2]
          ELSE IF pat'.name = "idle"
          THEN /\ Asked(led') = << <<4, "off">> >>
               /\ pat.i = 4 /\ pat.round = pat.rounds - 1
          ELSE /\ Asked(led') = << <<pat.i, "off">>, <<pat'.i, "on">> >>
               /\ pat'.i = (pat.i % 4) + 1
               /\ pat'.round = IF pat.i = 4 THEN pat.round + 1 ELSE pat.round
               /\ pat'.round < pat.rounds /\ pat'.rounds = pat.rounds]_vars

\* C22's case: the chase has turned role 4 off and begun its second round
\* with role 1 on.
C22_Witness ==
    /\ call = <<"resume", "chaseLEDs">>
    /\ pat.name = "chaseLEDs" /\ pat.round = 1 /\ pat.i = 1
    /\ Asked(led) = << <<4, "off">>, <<1, "on">> >>

\* --------------------------------------------- the confirming flash, specified
\* Devices connect, announce themselves and close, and the timers set by
\* connectToMicrobit and registerButton fire.
IdentifyTimerFires == \E p \in Ports : IdentifyTimer(p) /\ UNCHANGED wire
FlashOnTimerFires(n) == FlashOnTimer(n) /\ UNCHANGED wire
FlashOffTimerFires(n) == FlashOffTimer(n) /\ UNCHANGED wire

NextFlash ==
    \/ Connect
    \/ ReadyReceived
    \/ Close
    \/ IdentifyTimerFires
    \/ \E n \in Buttons : FlashOnTimerFires(n)
    \/ \E n \in Buttons : FlashOffTimerFires(n)

\* A timer of the event loop that is due fires.
SpecFlash ==
    /\ InitPattern
    /\ [][NextFlash]_vars
    /\ \A n \in Buttons : /\ WF_vars(FlashOnTimerFires(n))
                          /\ WF_vars(FlashOffTimerFires(n))

\* The step was the READY line by which port p took role n.
Claimed(p, n) ==
    /\ call # <<>> /\ call[1] = "data" /\ call[2] = p
    /\ RoleHolder(n) = p
    /\ \E k \in 1..Len(emitted) : emitted[k] = ReadyEvent(p, n)

\* The step was a timer of the flash and wrote cmd to port p.
FlashWrote(p, n, cmd) ==
    /\ call = <<"flash", n>>
    /\ \E k \in 1..Len(written) : written[k].port = p /\ written[k].cmd = cmd

\* Port p lost its connection or role n.
Dropped(p, n) == p \notin connections \/ RoleHolder(n) # p

\* C23: after port p has taken role n, LED_ON is written to p by the flash,
\* and after that LED_OFF, unless p loses its connection or the role first.
C23_FlashFollowsClaim ==
    \A p \in Ports, n \in Buttons :
        /\ Claimed(p, n) ~> (FlashWrote(p, n, "LED_ON") \/ Dropped(p, n))
        /\ FlashWrote(p, n, "LED_ON")
              ~> (FlashWrote(p, n, "LED_OFF") \/ Dropped(p, n))


\* ------------------------------------------------ the cascade, specified
\* Devices connect, announce themselves and close while randomCascade plays
\* its waves.
RandomCascadeCalled ==
    \E waves \in 0..(MaxRounds + 1) : CallRandomCascade(waves) /\ UNCHANGED wire
RandomCascadeResumes == RandomCascadeResume /\ UNCHANGED wire

NextCascade ==
    \/ Connect
    \/ ReadyReceived
    \/ Close
    \/ RandomCascadeCalled
    \/ RandomCascadeResumes

SpecCascade == InitRandom /\ [][NextCascade]_vars

\* The roles the step turned off, in the order of the calls.
DarkenedBy(calls) ==
    LET off == SelectSeq(calls, LAMBDA c : c.state = "off")
    IN  [k \in 1..Len(off) |-> off[k].button]

\* C24: a wave of randomCascade turns the roles on in the order 1,2,3,4 or
\* 4,3,2,1; it turns a role off only when the four have been turned on, and
\* it turns them off from the last one lit to the first.
C24_CascadeWave ==
    [][call' # <<>> /\ Caller(call') = "randomCascade" =>
          /\ pat'.name = "randomCascade" =>
                pat'.order \in {<<1, 2, 3, 4>>, <<4, 3, 2, 1>>}
          /\ DarkenedBy(led') # <<>> =>
                /\ call'[1] = "resume"
                /\ pat.pc \in {"hold", "off"}
                /\ DarkenedBy(led') =
                      << pat.order[IF pat.pc = "hold" THEN NumButtons
                                   ELSE pat.i - 1] >>
          /\ LitBy(led') # <<>> =>
                /\ pat'.pc = "on"
                /\ LitBy(led') = << pat'.order[pat'.i] >>
                /\ pat'.i = (IF call'[1] = "resume" /\ pat.pc = "on"
                             THEN pat.i + 1 ELSE 1)]_vars

\* C25: when the onDuration of an element of randomLEDSequence is over the
\* element is turned off; the offDuration pause follows if the element is not
\* the final one of its sequence, and does not follow the final one.
C25_NoTrailingPause ==
    [][/\ call' = <<"resume", "randomLEDSequence">>
       /\ pat.pc = "lit"
       => /\ led' # <<>>
          /\ led'[1].button = pat.order[pat.i] /\ led'[1].state = "off"
          /\ IF pat.i < Len(pat.order)
             THEN pat'.pc = "dark" /\ pat'.i = pat.i
             ELSE pat'.pc # "dark"]_vars

\* C26: when the connection of a port that does not hold role R goes, R stays
\* with its live holder and the holder's connection stays.
C26_OtherHolderKept ==
    [][\A p \in Ports, R \in Buttons :
          /\ call' # <<>> /\ call'[1] \in {"close", "error"} /\ call'[2] = p
          /\ Live(R) /\ RoleHolder(R) # p
          => /\ RoleHolderAfter(R) = RoleHolder(R)
             /\ RoleHolder(R) \in connections']_vars

\* The button events of role n among the events of a step.
ButtonEvents(events, n) ==
    SelectSeq(events, LAMBDA e : /\ e.type \in {"button-press", "button-release"}
                                 /\ e.button = n)

\* C27: buttonStates[n - 1] tells whether the last button event of role n was
\* a press: from the constructor's all false with no event emitted, a step
\* that emits button events of role n leaves it telling whether the last of
\* them was a press, and a step that emits none (a disconnection, say) leaves
\* it as it was.
C27_StateFollowsEvents ==
    [][\A n \in Buttons :
          LET evs == ButtonEvents(emitted', n)
          IN  IF evs = <<>>
              THEN buttonStates'[n - 1] = buttonStates[n - 1]
              ELSE buttonStates'[n - 1] =
                       (evs[Len(evs)].type = "button-press")]_vars

\* ------------------------------------------ lines of no role, specified
\* The numbers a line may carry that name no role: one outside 1..4, and no
\* number at all.
NoRoleTokens == {"5", "x"}

\* The lines of a device that prints such a number where the role goes.
NoRoleLines ==
    UNION {{ReadyLine(t), PressedLine(t), ReleasedLine(t)}
              \cup {LedLine(t, w) : w \in LedWords} : t \in NoRoleTokens}

\* A port delivers the READY line of its device, or a line of no role.
ReceiveNoRole ==
    \E p \in Ports : \E m \in NoRoleLines : Data(p, m) /\ UNCHANGED wire

NextNoRole ==
    \/ Connect
    \/ ReadyReceived
    \/ ReceiveNoRole
    \/ Close

SpecNoRole == InitPattern /\ [][NextNoRole]_vars

\* C28: a READY, PRESSED, RELEASED or LED confirmation line whose number is
\* outside 1..4 or no number changes no role map, no button state and no LED
\* state, leaves buttonStates and ledStates with their four entries, and
\* emits no event.
C28_NoRoleLineIgnored ==
    [][call'[1] = "data" =>
       \A p \in Ports, m \in NoRoleLines :
           call' = <<"data", p, m>> =>
               /\ emitted' = <<>>
               /\ UNCHANGED <<buttonMappings, portToButton, microbitMapping,
                              buttonStates, ledStates>>
               /\ DOMAIN buttonStates' = 0..(NumButtons - 1)
               /\ DOMAIN ledStates' = 0..(NumButtons - 1)]_vars

\* C29: handleDisconnection for a port whose connection is gone already (the
\* port's error came first, its close or another error comes now) changes
\* nothing and emits nothing; a role that another port has taken meanwhile
\* stays with that port.
C29_SecondDisconnectionIdle ==
    [][\A p \in Ports :
          /\ variant # "arcade"
          /\ call' # <<>> /\ call'[1] \in {"close", "error"} /\ call'[2] = p
          /\ p \notin connections
          => /\ UNCHANGED <<connections, deviceType, buttonMappings,
                            portToButton, bikePort, bikeData, buttonStates,
                            ledStates, timers>>
             /\ emitted' = <<>> /\ written' = <<>>]_vars

\* C29's case: port p's close has come after its error; between the two p
\* announced itself again and then port q took the role, which q keeps, as p
\* keeps the entry that only a call finding the connection would have removed.
C29_Witness ==
    /\ variant # "arcade"
    /\ \E p, q \in Ports, n \in Buttons :
          /\ p # q
          /\ call = <<"close", p>>
          /\ buttonMappings[p] = n
          /\ portToButton[n] = q /\ buttonMappings[q] = n
          /\ q \in connections

\* ------------------------------------------------ disconnect(), specified
\* Devices connect, announce themselves, fail and close, the game layer
\* switches LEDs and resets the counter, and disconnect() is called.
DisconnectCalled == CallDisconnect /\ UNCHANGED wire

NextDisconnect ==
    \/ Connect
    \/ Receive
    \/ Error
    \/ Close
    \/ SetLEDCalled
    \/ ResetBikeCounterCalled
    \/ DisconnectCalled

SpecDisconnect == Init /\ [][NextDisconnect]_vars

\* The controller holds no connection and no role.
HoldsNothing ==
    /\ connections = {}
    /\ \A p \in Ports : buttonMappings[p] = 0
    /\ \A n \in Buttons : portToButton[n] = NoPort
    /\ microbitMapping = <<>>
    /\ bikePort = NoPort

=============================================================================
